---- MODULE Spec2Model ----
(***************************************************************************)
(* key_vaulter: KeyManager (a string secret under (system_name, key_name)  *)
(* in the platform keyring, with an optional environment-variable          *)
(* override) and StructKeyManager<T> (a serde record stored as JSON text   *)
(* through a KeyManager, rebuilt field by field from the console when it   *)
(* cannot be read).                                                        *)
(*                                                                         *)
(* Text is a sequence of one-character strings, so that trimming, number   *)
(* parsing and JSON encoding/decoding are computed character by character. *)
(***************************************************************************)
EXTENDS Integers, Sequences, FiniteSets, TLC

\* a value computed once and named, as a let binding does
With(v, In(_)) == In(v)

\* ------------------------------------------------------------------ text

Whitespace == {" ", "\n", "\t", "\r"}

Digits == {"0", "1", "2", "3", "4", "5", "6", "7", "8", "9"}

DigitSeq == <<"0", "1", "2", "3", "4", "5", "6", "7", "8", "9">>

DigitVal(c) == (CHOOSE i \in 1..10 : DigitSeq[i] = c) - 1

UpperSeq == <<"A", "B", "C", "D", "E", "F", "G", "H", "I", "J", "K", "L", "M",
              "N", "O", "P", "Q", "R", "S", "T", "U", "V", "W", "X", "Y", "Z">>

LowerSeq == <<"a", "b", "c", "d", "e", "f", "g", "h", "i", "j", "k", "l", "m",
              "n", "o", "p", "q", "r", "s", "t", "u", "v", "w", "x", "y", "z">>

\* char::to_lowercase on the ASCII letters
LowerChar(c) ==
    IF \E i \in 1..26 : UpperSeq[i] = c
    THEN LowerSeq[CHOOSE i \in 1..26 : UpperSeq[i] = c]
    ELSE c

\* str::to_lowercase
to_lowercase(s) == [i \in 1..Len(s) |-> LowerChar(s[i])]

RECURSIVE trim_start(_)
trim_start(s) ==
    IF s # <<>> /\ Head(s) \in Whitespace THEN trim_start(Tail(s)) ELSE s

RECURSIVE trim_end(_)
trim_end(s) ==
    IF s # <<>> /\ s[Len(s)] \in Whitespace
    THEN trim_end(SubSeq(s, 1, Len(s) - 1))
    ELSE s

\* a trim that strips the front only
trim_front(s) == trim_start(s)

\* str::trim: leading and trailing whitespace removed, interior kept
trim(s) == trim_end(trim_start(s))

\* --------------------------------------------------------------- numbers
\* A magnitude is a digit text without leading zeros ("0" for zero).

RECURSIVE StripZeros(_)
StripZeros(ds) ==
    IF Len(ds) > 1 /\ Head(ds) = "0" THEN StripZeros(Tail(ds)) ELSE ds

MagLeq(a, b) ==
    \/ Len(a) < Len(b)
    \/ /\ Len(a) = Len(b)
       /\ \/ a = b
          \/ LET i == CHOOSE k \in 1..Len(a) :
                          a[k] # b[k] /\ \A j \in 1..(k - 1) : a[j] = b[j]
             IN  DigitVal(a[i]) < DigitVal(b[i])

I64MaxMag == <<"9", "2", "2", "3", "3", "7", "2", "0", "3", "6", "8", "5",
               "4", "7", "7", "5", "8", "0", "7">>

I64MinMag == <<"9", "2", "2", "3", "3", "7", "2", "0", "3", "6", "8", "5",
               "4", "7", "7", "5", "8", "0", "8">>

I32MaxMag == <<"2", "1", "4", "7", "4", "8", "3", "6", "4", "7">>

I32MinMag == <<"2", "1", "4", "7", "4", "8", "3", "6", "4", "8">>

\* A 64-bit integer, as serde_json::Number holds it: sign and magnitude.
Num(neg, mag) == [neg |-> neg /\ mag # <<"0">>, mag |-> mag]

\* str::parse::<i64>: an optional sign, at least one digit, nothing else,
\* and the value within the 64-bit range.
parse_i64(s) ==
    LET signed == s # <<>> /\ Head(s) \in {"+", "-"}
        neg    == s # <<>> /\ Head(s) = "-"
        ds     == IF signed THEN Tail(s) ELSE s
    IN  IF ds = <<>> \/ \E i \in 1..Len(ds) : ds[i] \notin Digits
        THEN [ok |-> FALSE]
        ELSE LET mag == StripZeros(ds)
             IN  IF MagLeq(mag, IF neg THEN I64MinMag ELSE I64MaxMag)
                 THEN [ok |-> TRUE, num |-> Num(neg, mag)]
                 ELSE [ok |-> FALSE]

RECURSIVE Accum(_, _, _)
Accum(ds, acc, sgn) ==
    IF ds = <<>> THEN acc
    ELSE Accum(Tail(ds), acc * 10 + sgn * DigitVal(Head(ds)), sgn)

\* a conversion that clamps a number out of range to the nearest i32
NumToI32_saturating(n) ==
    IF MagLeq(n.mag, IF n.neg THEN I32MinMag ELSE I32MaxMag)
    THEN [ok |-> TRUE, val |-> Accum(n.mag, 0, IF n.neg THEN -1 ELSE 1)]
    ELSE [ok |-> TRUE, val |-> IF n.neg THEN -2147483647 - 1 ELSE 2147483647]

\* i32's deserialize visitor on a 64-bit number: a range check, then the value
NumToI32(n) ==
    IF MagLeq(n.mag, IF n.neg THEN I32MinMag ELSE I32MaxMag)
    THEN [ok |-> TRUE, val |-> Accum(n.mag, 0, IF n.neg THEN -1 ELSE 1)]
    ELSE [ok |-> FALSE]

RECURSIVE MagOfNat(_)
MagOfNat(n) ==
    IF n < 10 THEN <<DigitSeq[n + 1]>>
    ELSE Append(MagOfNat(n \div 10), DigitSeq[(n % 10) + 1])

\* the decimal text of an i32 (itoa), the minimum included
itoa(n) ==
    IF n >= 0 THEN MagOfNat(n)
    ELSE LET ld   == (10 - (n % 10)) % 10
             rest == (-(n + ld)) \div 10
         IN  <<"-">> \o (IF rest = 0 THEN <<>> ELSE MagOfNat(rest))
                     \o <<DigitSeq[ld + 1]>>

\* serde_json's Number as text (integers only)
NumText(n) == (IF n.neg THEN <<"-">> ELSE <<>>) \o n.mag

\* ------------------------------------------------------------ record types
\* A record type: its fields in declaration order, each with the name serde
\* gives it and its Rust type.  A value of a record type is the sequence of its fields'
\* values in declaration order.

StrV(s) == [t |-> "String", s |-> s]

I32V(n) == [t |-> "i32", n |-> n]

BoolV(b) == [t |-> "bool", b |-> b]

\* #[derive(Default)]: "" / 0 / false
DefaultOf(kind) ==
    CASE kind = "String" -> StrV(<<>>)
      [] kind = "i32"    -> I32V(0)
      [] kind = "bool"   -> BoolV(FALSE)

Default(R) == [i \in 1..Len(R) |-> DefaultOf(R[i].kind)]

\* ------------------------------------------------------------------ JSON
\* serde_json::Value, as far as flat records need it.

JString(s) == [t |-> "String", s |-> s]

JNumber(n) == [t |-> "Number", num |-> n]

JBool(b) == [t |-> "Bool", b |-> b]

JNull == [t |-> "Null"]

\* a number serde_json holds as f64 (here only "-0")
JFloat == [t |-> "Float"]

is_number(v) == v.t \in {"Number", "Float"}

is_boolean(v) == v.t = "Bool"

\* i32 -> Number ("num.into()" for the value a field of R holds)
NumOfI32(n) == parse_i64(itoa(n)).num

\* Serialize for one field
ToJson(v) ==
    CASE v.t = "String" -> JString(v.s)
      [] v.t = "i32"    -> JNumber(NumOfI32(v.n))
      [] v.t = "bool"   -> JBool(v.b)

\* Deserialize for one field of the given Rust type: the JSON type must match
\* and an integer must be within the field's range
FromJson(kind, j) ==
    CASE kind = "String" /\ j.t = "String" -> [ok |-> TRUE, val |-> StrV(j.s)]
      [] kind = "bool" /\ j.t = "Bool"     -> [ok |-> TRUE, val |-> BoolV(j.b)]
      [] kind = "i32" /\ j.t = "Number"    ->
            LET r == NumToI32(j.num)
            IN  IF r.ok THEN [ok |-> TRUE, val |-> I32V(r.val)]
                ELSE [ok |-> FALSE]
      [] OTHER -> [ok |-> FALSE]

\* an encoder that copies every character as it is
EscapeChar_raw(c) == <<c>>

EscapeChar(c) ==
    CASE c = "\"" -> <<"\\", "\"">>
      [] c = "\\" -> <<"\\", "\\">>
      [] c = "\n" -> <<"\\", "n">>
      [] c = "\t" -> <<"\\", "t">>
      [] c = "\r" -> <<"\\", "r">>
      [] OTHER    -> <<c>>

RECURSIVE EscapeBody(_)
EscapeBody(s) ==
    IF s = <<>> THEN <<>> ELSE EscapeChar(Head(s)) \o EscapeBody(Tail(s))

\* a JSON string literal
Quote(s) == <<"\"">> \o EscapeBody(s) \o <<"\"">>

TrueText == <<"t", "r", "u", "e">>

FalseText == <<"f", "a", "l", "s", "e">>

NullText == <<"n", "u", "l", "l">>

ValueText(j) ==
    CASE j.t = "String" -> Quote(j.s)
      [] j.t = "Number" -> NumText(j.num)
      [] j.t = "Bool"   -> IF j.b THEN TrueText ELSE FalseText
      [] j.t = "Null"   -> NullText

RECURSIVE MembersText(_, _, _)
MembersText(R, v, i) ==
    IF i > Len(R) THEN <<>>
    ELSE (IF i > 1 THEN <<",">> ELSE <<>>)
         \o Quote(R[i].key) \o <<":">> \o ValueText(ToJson(v[i]))
         \o MembersText(R, v, i + 1)

\* serde_json::to_string of a value of R: the fields in declaration order,
\* compact
to_string(R, v) == <<"{">> \o MembersText(R, v, 1) \o <<"}">>

\* ----------------------------------------------------------- JSON parsing
\* A parse step answers [ok, val, next]: the value and the index after it.

Fail == [ok |-> FALSE]

RECURSIVE SkipWs(_, _)
SkipWs(s, i) ==
    IF i <= Len(s) /\ s[i] \in Whitespace THEN SkipWs(s, i + 1) ELSE i

Unescape(c) ==
    CASE c \in {"\"", "\\", "/"} -> <<c>>
      [] c = "n" -> <<"\n">>
      [] c = "t" -> <<"\t">>
      [] c = "r" -> <<"\r">>
      [] OTHER   -> <<>>

\* the body of a string literal from index i, up to the closing quote; a raw
\* control character or an unknown escape is an error
RECURSIVE ParseStrBody(_, _, _)
ParseStrBody(s, i, acc) ==
    IF i > Len(s) THEN Fail
    ELSE IF s[i] = "\"" THEN [ok |-> TRUE, val |-> acc, next |-> i + 1]
    ELSE IF s[i] = "\\"
         THEN IF i + 1 > Len(s) \/ Unescape(s[i + 1]) = <<>> THEN Fail
              ELSE ParseStrBody(s, i + 2, acc \o Unescape(s[i + 1]))
    ELSE IF s[i] \in {"\n", "\t", "\r"} THEN Fail
    ELSE ParseStrBody(s, i + 1, Append(acc, s[i]))

RECURSIVE DigitsEnd(_, _)
DigitsEnd(s, i) ==
    IF i <= Len(s) /\ s[i] \in Digits THEN DigitsEnd(s, i + 1) ELSE i

\* an integer literal: -? (0 | [1-9][0-9]*); "-0" is held as a float
ParseNumber(s, i) ==
    LET neg == s[i] = "-"
        b   == IF neg THEN i + 1 ELSE i
    IN  IF b > Len(s) \/ s[b] \notin Digits THEN Fail
        ELSE LET e == IF s[b] = "0" THEN b + 1 ELSE DigitsEnd(s, b)
                 mag == SubSeq(s, b, e - 1)
             IN  IF e <= Len(s) /\ s[e] \in Digits THEN Fail
                 ELSE IF neg /\ mag = <<"0">>
                      THEN [ok |-> TRUE, val |-> JFloat, next |-> e]
                 ELSE [ok |-> TRUE, val |-> JNumber(Num(neg, mag)), next |-> e]

ParseLiteral(s, i, text, v) ==
    IF i + Len(text) - 1 <= Len(s) /\ SubSeq(s, i, i + Len(text) - 1) = text
    THEN [ok |-> TRUE, val |-> v, next |-> i + Len(text)]
    ELSE Fail

\* one scalar JSON value at index i (nested objects and arrays, fractions and
\* exponents are outside the texts modelled, and rejected)
ParseValue(s, i) ==
    IF i > Len(s) THEN Fail
    ELSE CASE s[i] = "\"" ->
                With(ParseStrBody(s, i + 1, <<>>),
                     LAMBDA r : IF r.ok THEN [r EXCEPT !.val = JString(r.val)]
                                ELSE Fail)
           [] s[i] = "-" \/ s[i] \in Digits -> ParseNumber(s, i)
           [] s[i] = "t" -> ParseLiteral(s, i, TrueText, JBool(TRUE))
           [] s[i] = "f" -> ParseLiteral(s, i, FalseText, JBool(FALSE))
           [] s[i] = "n" -> ParseLiteral(s, i, NullText, JNull)
           [] OTHER -> Fail

\* the index of the field of R named key, 0 when R has none
FieldIndex(R, key) ==
    IF \E i \in 1..Len(R) : R[i].key = key
    THEN CHOOSE i \in 1..Len(R) : R[i].key = key
    ELSE 0

Unset == [set |-> FALSE]

\* the members of an object from index i, as derive(Deserialize) visits them:
\* a known field is converted to its Rust type and may come once, an unknown
\* field is ignored; answers the fields found and the index after "}"
RECURSIVE ParseMembers(_, _, _, _, _)
ParseMembers(R, s, i, first, got) ==
    LET j == SkipWs(s, i)
        k == IF first THEN j ELSE IF s[j] = "," THEN SkipWs(s, j + 1) ELSE 0
    IN  IF j > Len(s) THEN Fail
        ELSE IF s[j] = "}" THEN [ok |-> TRUE, val |-> got, next |-> j + 1]
        ELSE IF k = 0 \/ k > Len(s) \/ s[k] # "\"" THEN Fail
        ELSE With(ParseStrBody(s, k + 1, <<>>), LAMBDA key :
             IF ~key.ok \/ SkipWs(s, key.next) > Len(s)
                \/ s[SkipWs(s, key.next)] # ":"
             THEN Fail
             ELSE With(ParseValue(s, SkipWs(s, SkipWs(s, key.next) + 1)), LAMBDA v :
                  LET idx == FieldIndex(R, key.val)
                  IN  IF ~v.ok THEN Fail
                      ELSE IF idx = 0
                      THEN ParseMembers(R, s, v.next, FALSE, got)
                      ELSE IF got[idx].set THEN Fail
                      ELSE With(FromJson(R[idx].kind, v.val), LAMBDA tv :
                           IF ~tv.ok THEN Fail
                           ELSE ParseMembers(R, s, v.next, FALSE,
                                    [got EXCEPT ![idx] =
                                        [set |-> TRUE, v |-> tv.val]]))))

\* serde_json::from_str::<R>: one object, every field of R present, nothing
\* but whitespace after it
from_str(R, s) ==
    LET i == SkipWs(s, 1)
    IN  IF i > Len(s) \/ s[i] # "{" THEN Fail
        ELSE With(ParseMembers(R, s, i + 1, TRUE, [f \in 1..Len(R) |-> Unset]),
                  LAMBDA m :
                  IF ~m.ok THEN Fail
                  ELSE IF \E f \in 1..Len(R) : ~m.val[f].set THEN Fail
                  ELSE IF SkipWs(s, m.next) <= Len(s) THEN Fail
                  ELSE [ok |-> TRUE, val |-> [f \in 1..Len(R) |-> m.val[f].v]])

\* ------------------------------------------------------------------ state

VARIABLES
    use_env_credentials,  \* the cargo feature guarding the env lookup in read_key
    preserve_order,       \* serde_json's feature: Map keeps insertion order
    T,                    \* the record type of StructKeyManager<T>
    environ,              \* std::env: the variable named key_name, if set
    keyring,              \* the platform store: a set of credentials
    wrapped,              \* the managers are StructKeyManager<T>s (else KeyManagers)
    active,               \* the managers the program built and calls
    key_value,            \* per manager: KeyManager.key_value
    last,                 \* the call that just returned, and what it did
    prev                  \* the call before it

vars == <<use_env_credentials, preserve_order, T, environ, keyring, wrapped,
          active, key_value, last, prev>>

Managers == {"m1", "m2"}

\* main.rs wires one identity; both managers are built with it
system_name == "my_system"

key_name == "user_profile"

None == [some |-> FALSE]

Some(v) == [some |-> TRUE, val |-> v]

Ok(v) == [ok |-> TRUE, val |-> v]

\* keyring::Error::NoEntry
NoEntry == [ok |-> FALSE, err |-> [kind |-> "NoEntry"]]

\* keyring::Error::PlatformFailure(Box<dyn Error>): payload names the boxed error
PlatformFailure(payload) ==
    [ok |-> FALSE, err |-> [kind |-> "PlatformFailure", payload |-> payload]]

\* Ok(()) of store_key and delete_key
Unit == <<>>

\* ----------------------------------------------------- keyring::Entry
\* The keyring crate's Entry for (service, user), on a store holding one
\* credential per entry.  fails: the platform call fails.

Credential(service, user, secret) ==
    [service |-> service, user |-> user, secret |-> secret]

EntryOf(kr, service, user) ==
    {c \in kr : c.service = service /\ c.user = user}

get_password(kr, service, user, fails) ==
    IF fails THEN PlatformFailure("platform")
    ELSE IF EntryOf(kr, service, user) = {} THEN NoEntry
    ELSE Ok((CHOOSE c \in EntryOf(kr, service, user) : TRUE).secret)

\* a store that keeps the secret an entry already has
set_password_if_absent(kr, service, user, secret, fails) ==
    IF fails THEN [res |-> PlatformFailure("platform"), keyring |-> kr]
    ELSE IF EntryOf(kr, service, user) # {} THEN [res |-> Ok(Unit), keyring |-> kr]
    ELSE [res |-> Ok(Unit),
          keyring |-> kr \cup {Credential(service, user, secret)}]

\* a store that adds a credential beside the one an entry already has
set_password_append(kr, service, user, secret, fails) ==
    IF fails THEN [res |-> PlatformFailure("platform"), keyring |-> kr]
    ELSE [res |-> Ok(Unit),
          keyring |-> kr \cup {Credential(service, user, secret)}]

set_password(kr, service, user, secret, fails) ==
    IF fails THEN [res |-> PlatformFailure("platform"), keyring |-> kr]
    ELSE [res |-> Ok(Unit),
          keyring |-> (kr \ EntryOf(kr, service, user))
                          \cup {Credential(service, user, secret)}]

\* a delete that reports success and removes nothing
delete_credential_noop(kr, service, user, fails) ==
    IF fails THEN [res |-> PlatformFailure("platform"), keyring |-> kr]
    ELSE IF EntryOf(kr, service, user) = {}
         THEN [res |-> NoEntry, keyring |-> kr]
    ELSE [res |-> Ok(Unit), keyring |-> kr]

\* a delete that succeeds on an entry without a credential
delete_credential_lenient(kr, service, user, fails) ==
    IF fails THEN [res |-> PlatformFailure("platform"), keyring |-> kr]
    ELSE [res |-> Ok(Unit), keyring |-> kr \ EntryOf(kr, service, user)]

delete_credential(kr, service, user, fails) ==
    IF fails THEN [res |-> PlatformFailure("platform"), keyring |-> kr]
    ELSE IF EntryOf(kr, service, user) = {}
         THEN [res |-> NoEntry, keyring |-> kr]
    ELSE [res |-> Ok(Unit), keyring |-> kr \ EntryOf(kr, service, user)]

\* std::env::var(key_name): Ok only for a variable that is set (to Unicode)
env_var == IF environ.some THEN Ok(environ.val) ELSE [ok |-> FALSE]

\* ---------------------------------------------------------- KeyManager
\* Each method answers what the call returns and leaves behind:
\*   res        the Result returned
\*   keyring    the store afterwards
\*   key_value  the manager's key_value afterwards
\*   queried    the platform calls made, in order
\*   notice     "The key was not found." was printed
\*   prompts    the prompts printed, in order: [field, accepted]
\* io: the outcomes the environment supplies to the call:
\*   get_fails, set_fails, del_fails   the platform call fails
\*   lines                             what read_line yields, line by line
\*                                     (Line(text), or IoError)

IoError == [ioerr |-> TRUE]

Line(text) == [ioerr |-> FALSE, text |-> text]

Outcome(res, kr, kv, queried, notice, prompts) ==
    [res |-> res, keyring |-> kr, key_value |-> kv, queried |-> queried,
     notice |-> notice, prompts |-> prompts]

\* a read that asks the keyring first and the environment only on failure
read_key_keyring_first(m, io) ==
    With(get_password(keyring, system_name, key_name, io.get_fails),
         LAMBDA password :
         IF password.ok
         THEN Outcome(password, keyring, Some(password.val), <<"get">>, FALSE, <<>>)
         ELSE IF use_env_credentials /\ env_var.ok
         THEN Outcome(Ok(env_var.val), keyring, Some(env_var.val), <<"get">>,
                      FALSE, <<>>)
         ELSE Outcome(password, keyring, key_value[m], <<"get">>, FALSE, <<>>))

\* a read that returns the manager's key_value when it has one
read_key_cached(m, io) ==
    IF key_value[m].some
    THEN Outcome(Ok(key_value[m].val), keyring, key_value[m], <<>>, FALSE, <<>>)
    ELSE With(get_password(keyring, system_name, key_name, io.get_fails),
              LAMBDA password :
              IF password.ok
              THEN Outcome(password, keyring, Some(password.val), <<"get">>,
                           FALSE, <<>>)
              ELSE Outcome(password, keyring, key_value[m], <<"get">>, FALSE, <<>>))

read_key(m, io) ==
    IF use_env_credentials /\ env_var.ok
    THEN Outcome(Ok(env_var.val), keyring, Some(env_var.val), <<>>, FALSE, <<>>)
    ELSE LET password == get_password(keyring, system_name, key_name, io.get_fails)
         IN  IF password.ok
             THEN Outcome(password, keyring, Some(password.val), <<"get">>, FALSE, <<>>)
             ELSE Outcome(password, keyring, key_value[m], <<"get">>, FALSE, <<>>)

\* a store that sets key_value before it calls the keyring
store_key_eager(m, value, io) ==
    With(set_password(keyring, system_name, key_name, value, io.set_fails),
         LAMBDA set :
         Outcome(IF set.res.ok THEN Ok(Unit) ELSE set.res, set.keyring,
                 Some(value), <<"set">>, FALSE, <<>>))

store_key(m, value, io) ==
    LET set == set_password(keyring, system_name, key_name, value, io.set_fails)
    IN  IF set.res.ok
        THEN Outcome(Ok(Unit), set.keyring, Some(value), <<"set">>, FALSE, <<>>)
        ELSE Outcome(set.res, keyring, key_value[m], <<"set">>, FALSE, <<>>)

\* a delete that leaves key_value as it was
delete_key_keeps_cache(m, io) ==
    With(delete_credential(keyring, system_name, key_name, io.del_fails),
         LAMBDA del :
         Outcome(IF del.res.ok THEN Ok(Unit) ELSE del.res, del.keyring,
                 key_value[m], <<"delete">>, FALSE, <<>>))

delete_key(m, io) ==
    LET del == delete_credential(keyring, system_name, key_name, io.del_fails)
    IN  IF del.res.ok
        THEN Outcome(Ok(Unit), del.keyring, None, <<"delete">>, FALSE, <<>>)
        ELSE Outcome(del.res, keyring, key_value[m], <<"delete">>, FALSE, <<>>)

\* a request that returns the line as read and stores it trimmed
request_key_raw(m, io) ==
    IF io.lines[1] = IoError
    THEN Outcome(PlatformFailure("io"), keyring, key_value[m], <<>>, FALSE,
                 <<[field |-> key_name, accepted |-> FALSE]>>)
    ELSE With(store_key(m, trim(io.lines[1].text), io), LAMBDA st :
              [st EXCEPT !.res = IF st.res.ok THEN Ok(io.lines[1].text)
                                 ELSE st.res,
                         !.prompts = <<[field |-> key_name, accepted |-> TRUE]>>])

\* prompt, read one line, trim it, store it, return it
request_key(m, io) ==
    LET line == io.lines[1]
    IN  IF line = IoError
        THEN Outcome(PlatformFailure("io"), keyring, key_value[m], <<>>, FALSE,
                     <<[field |-> key_name, accepted |-> FALSE]>>)
        ELSE LET input == trim(line.text)
             IN  With(store_key(m, input, io), LAMBDA st :
                      [st EXCEPT !.res = IF st.res.ok THEN Ok(input) ELSE st.res,
                                 !.prompts = <<[field |-> key_name,
                                                accepted |-> TRUE]>>])

\* a read_or_request_key that prompts whatever read_key returns
read_or_request_key_asks(m, io) ==
    With(request_key(m, io), LAMBDA rq : [rq EXCEPT !.notice = TRUE])

read_or_request_key(m, io) ==
    With(read_key(m, io), LAMBDA rd :
         IF rd.res.ok THEN rd
         ELSE With(request_key(m, io), LAMBDA rq :
                   [rq EXCEPT !.queried = rd.queried \o rq.queried,
                              !.notice = TRUE]))

\* ----------------------------------------------------------------- inputs

\* how many of the sample values, and of the console lines, the calls draw from
NumSamples == 2

NumLines == 3

Grace == <<"G", "r", "a", "c", "e">>

Thirty == <<"3", "0">>

\* "test_value" of the crate's tests: not JSON
test_value == <<"t", "e", "s", "t", "_", "v", "a", "l", "u", "e">>

value_from_env == <<"v", "a", "l", "u", "e", "_", "f", "r", "o", "m", "_",
                    "e", "n", "v">>

Field(key, kind) == [key |-> key, kind |-> kind]

\* T of the scenario: {name: String, age: i32}
Profile == <<Field(<<"n", "a", "m", "e">>, "String"),
             Field(<<"a", "g", "e">>, "i32")>>

\* a T with a boolean field: {user: String, admin: bool}
Account == <<Field(<<"u", "s", "e", "r">>, "String"),
             Field(<<"a", "d", "m", "i", "n">>, "bool")>>

RecordTypes == {Profile, Account}

StringSamples == <<Grace, <<"a", "\"", "\\", " ", "b">>, <<>>>>

I32Samples == <<30, -2147483647 - 1, 2147483647>>

BoolSamples == <<TRUE, FALSE, TRUE>>

Sample(kind, k) ==
    CASE kind = "String" -> StrV(StringSamples[((k - 1) % 3) + 1])
      [] kind = "i32"    -> I32V(I32Samples[((k - 1) % 3) + 1])
      [] kind = "bool"   -> BoolV(BoolSamples[((k - 1) % 3) + 1])

\* the k-th sample value of T
SampleOf(R, k) == [f \in 1..Len(R) |-> Sample(R[f].kind, k)]

ScalarValues == {test_value, Grace}

\* what the user may type at the prompts for a value of R, as read_line
\* yields it: text for the string field, then for the other field -- valid,
\* out of range, of the wrong form
LineSeq(R) ==
    IF R = Account
    THEN <<<<" ", "G", "r", "a", "c", "e", "\n">>,
           <<"T", "R", "U", "E", "\r", "\n">>,
           <<"f", "a", "l", "s", "e", "\n">>,
           <<"3", "0", "\n">>,
           <<>>>>
    ELSE <<<<" ", "G", "r", "a", "c", "e", "\n">>,
           <<"3", "0", "\n">>,
           <<"5", "0", "0", "0", "0", "0", "0", "0", "0", "0", "\n">>,
           <<"-", "7", "\n">>,
           <<>>>>

\* what read_line may yield
Lines(R) == {Line(LineSeq(R)[k]) : k \in 1..NumLines} \cup {IoError}

\* an input the call does not consume is not drawn
Drawn(S, consumed) == IF consumed THEN S ELSE {CHOOSE x \in S : TRUE}

\* the call reaches set_password
Sets(out) == \E i \in 1..Len(out.queried) : out.queried[i] = "set"

\* ---------------------------------------------------- StructKeyManager<T>

AsciiSeq == <<" ", "\"", "+", "-">> \o DigitSeq \o UpperSeq \o <<"\\", "_">>
            \o LowerSeq

CharOrd(c) == CHOOSE i \in 1..Len(AsciiSeq) : AsciiSeq[i] = c

\* String's Ord: byte by byte, a proper prefix first
KeyLess(a, b) ==
    \E k \in 1..(Len(a) + 1) :
        /\ \A j \in 1..(k - 1) : j <= Len(b) /\ a[j] = b[j]
        /\ \/ k > Len(a) /\ k <= Len(b)
           \/ k <= Len(a) /\ k <= Len(b) /\ CharOrd(a[k]) < CharOrd(b[k])

\* the order serde_json::Map iterates the fields of R in: insertion (the
\* declaration order) with preserve_order, sorted by key (BTreeMap) without
MapOrder(R, ordered) ==
    IF ordered THEN [p \in 1..Len(R) |-> p]
    ELSE [p \in 1..Len(R) |->
            CHOOSE f \in 1..Len(R) :
                Cardinality({g \in 1..Len(R) : KeyLess(R[g].key, R[f].key)}) = p - 1]

\* serde_json::to_value of a value of R: the Map, as its entries in
\* iteration order
to_value(R, ordered, v) ==
    LET order == MapOrder(R, ordered)
    IN  [p \in 1..Len(R) |-> [field |-> order[p], value |-> ToJson(v[order[p]])]]

\* serde_json::from_value::<R> of such a Map
from_value(R, map) ==
    LET conv == [f \in 1..Len(R) |->
                    FromJson(R[f].kind,
                             map[CHOOSE p \in 1..Len(map) : map[p].field = f].value)]
    IN  IF \E f \in 1..Len(R) : ~conv[f].ok THEN Fail
        ELSE Ok([f \in 1..Len(R) |-> conv[f].val])

\* the conversion of one trimmed input line for a field whose default is
\* field_value: the new value, or Rejected ("continue")
Rejected == [ok |-> FALSE]

\* a conversion that keeps every input as a string
Coerce_verbatim(field_value, input) == Ok(JString(input))

Coerce(field_value, input) ==
    IF is_number(field_value)
    THEN LET num == parse_i64(input)
         IN  IF num.ok THEN Ok(JNumber(num.num)) ELSE Rejected
    ELSE IF is_boolean(field_value)
    THEN CASE to_lowercase(input) = TrueText  -> Ok(JBool(TRUE))
           [] to_lowercase(input) = FalseText -> Ok(JBool(FALSE))
           [] OTHER -> Rejected
    ELSE Ok(JString(input))

\* a loop that passes over the field after the one just prompted
NextField_skipping(p, accepted) == p + 2

\* the position the loop over fields.iter_mut() visits after position p,
\* whether or not p's input was converted: "continue" moves on
NextField(p, accepted) == p + 1

\* the for loop of request_key from position p of the map, line n of the
\* input next: answers [ok, map, prompts]; ok is FALSE when read_line failed
RECURSIVE Elicit(_, _, _, _, _, _)
Elicit(R, map, p, lines, n, prompts) ==
    IF p > Len(map) \/ n > Len(lines)
    THEN [ok |-> TRUE, map |-> map, prompts |-> prompts]
    ELSE LET name == R[map[p].field].key
         IN  IF lines[n] = IoError
             THEN [ok |-> FALSE, map |-> map,
                   prompts |-> Append(prompts, [field |-> name, accepted |-> FALSE])]
             ELSE With(Coerce(map[p].value, trim(lines[n].text)),
                       LAMBDA new_value :
                       Elicit(R,
                              IF new_value.ok
                              THEN [map EXCEPT ![p].value = new_value.val]
                              ELSE map,
                              NextField(p, new_value.ok), lines, n + 1,
                              Append(prompts,
                                     [field |-> name, accepted |-> new_value.ok])))

\* request_key up to the store: the prompts printed, and the value of R the
\* filled map converts to (or the read_line / conversion failure)
Elicitation(R, ordered, lines) ==
    With(Elicit(R, to_value(R, ordered, Default(R)), 1, lines, 1, <<>>),
         LAMBDA el :
         IF ~el.ok
         THEN [res |-> PlatformFailure("io"), prompts |-> el.prompts]
         ELSE With(from_value(R, el.map), LAMBDA struct_value :
                   IF ~struct_value.ok
                   THEN [res |-> PlatformFailure("serde_json"),
                         prompts |-> el.prompts]
                   ELSE [res |-> struct_value, prompts |-> el.prompts]))

\* Elicitation, to_string and from_str, computed once for every input the
\* calls draw
ElicitationKeys ==
    UNION {{<<R, o, l>> : o \in BOOLEAN, l \in [1..Len(R) -> Lines(R)]} :
              R \in RecordTypes}

ElicitationFn == [k \in ElicitationKeys |-> Elicitation(k[1], k[2], k[3])]

TextKeys ==
    {<<k[1], ElicitationFn[k].res.val>> :
        k \in {e \in ElicitationKeys : ElicitationFn[e].res.ok}}
    \cup UNION {{<<R, SampleOf(R, n)>> : n \in 1..NumSamples} : R \in RecordTypes}

TextFn == [k \in TextKeys |-> to_string(k[1], k[2])]

ParseKeys ==
    {<<R, s>> : R \in RecordTypes,
                s \in {TextFn[k] : k \in TextKeys} \cup {test_value, value_from_env}}

ParseFn == [k \in ParseKeys |-> from_str(k[1], k[2])]

Elicited(R, ordered, lines) ==
    IF <<R, ordered, lines>> \in ElicitationKeys
    THEN ElicitationFn[<<R, ordered, lines>>]
    ELSE Elicitation(R, ordered, lines)

Serialized(R, v) ==
    IF <<R, v>> \in TextKeys THEN TextFn[<<R, v>>] ELSE to_string(R, v)

Parsed(R, s) ==
    IF <<R, s>> \in ParseKeys THEN ParseFn[<<R, s>>] ELSE from_str(R, s)

\* a read that reports text it cannot decode as a missing entry
Struct_read_key_absent(m, io) ==
    With(read_key(m, io), LAMBDA rd :
         IF ~rd.res.ok THEN rd
         ELSE With(Parsed(T, rd.res.val), LAMBDA struct_value :
                   IF struct_value.ok
                   THEN [rd EXCEPT !.res = Ok(struct_value.val)]
                   ELSE [rd EXCEPT !.res = NoEntry]))

Struct_read_key(m, io) ==
    With(read_key(m, io), LAMBDA rd :
         IF ~rd.res.ok THEN rd
         ELSE With(Parsed(T, rd.res.val), LAMBDA struct_value :
                   IF struct_value.ok
                   THEN [rd EXCEPT !.res = Ok(struct_value.val)]
                   ELSE [rd EXCEPT !.res = PlatformFailure("serde_json")]))

Struct_store_key(m, value, io) == store_key(m, Serialized(T, value), io)

Struct_delete_key(m, io) == delete_key(m, io)

\* a request_key that stores the default record when the console fails
Struct_request_key_partial(m, io) ==
    With(Elicited(T, preserve_order, io.lines), LAMBDA el :
         With(Struct_store_key(m, IF el.res.ok THEN el.res.val ELSE Default(T), io),
              LAMBDA st :
              [st EXCEPT !.res = IF st.res.ok THEN el.res ELSE st.res,
                         !.prompts = el.prompts]))

Struct_request_key(m, io) ==
    With(Elicited(T, preserve_order, io.lines), LAMBDA el :
         IF ~el.res.ok
         THEN Outcome(el.res, keyring, key_value[m], <<>>, FALSE, el.prompts)
         ELSE With(Struct_store_key(m, el.res.val, io), LAMBDA st :
                   [st EXCEPT !.res = IF st.res.ok THEN el.res ELSE st.res,
                              !.prompts = el.prompts]))

\* a read_or_request_key that asks only when the credential is missing
Struct_read_or_request_key_missing(m, io) ==
    With(Struct_read_key(m, io), LAMBDA rd :
         IF rd.res # NoEntry THEN rd
         ELSE With(Struct_request_key(m, io), LAMBDA rq :
                   [rq EXCEPT !.queried = rd.queried \o rq.queried,
                              !.notice = TRUE]))

Struct_read_or_request_key(m, io) ==
    With(Struct_read_key(m, io), LAMBDA rd :
         IF rd.res.ok THEN rd
         ELSE With(Struct_request_key(m, io), LAMBDA rq :
                   [rq EXCEPT !.queried = rd.queried \o rq.queried,
                              !.notice = TRUE,
                              !.key_value = IF rq.res.ok THEN rq.key_value
                                            ELSE rd.key_value]))

StructValues == {SampleOf(T, k) : k \in 1..NumSamples}

Io(get_fails, set_fails, del_fails, lines) ==
    [get_fails |-> get_fails, set_fails |-> set_fails, del_fails |-> del_fails,
     lines |-> lines]

\* ------------------------------------------------------------ the machine

\* the platform and console failures that took effect in a call
Faults(out, io) ==
    {q \in {"get", "set", "delete"} :
        /\ \E i \in 1..Len(out.queried) : out.queried[i] = q
        /\ \/ q = "get" /\ io.get_fails
           \/ q = "set" /\ io.set_fails
           \/ q = "delete" /\ io.del_fails}
    \cup {q \in {"read_line"} :
            \E i \in 1..Len(out.prompts) : io.lines[i] = IoError}

\* a call as it is remembered: what it was given (arg, the lines it read,
\* whether the keyring held the credential when it began, the failures that
\* took effect) and what it did
Call(op, m, arg, out, io) ==
    [op |-> op, mgr |-> m, arg |-> arg,
     held |-> EntryOf(keyring, system_name, key_name) # {},
     lines |-> SubSeq(io.lines, 1, Len(out.prompts)),
     faults |-> Faults(out, io),
     res |-> out.res, queried |-> out.queried, notice |-> out.notice,
     prompts |-> out.prompts]

NoCall ==
    [op |-> "new", mgr |-> "none", arg |-> None, held |-> FALSE, lines |-> <<>>,
     faults |-> {}, res |-> Ok(Unit), queried |-> <<>>, notice |-> FALSE,
     prompts |-> <<>>]

\* what is remembered of the call before the last one, when it returned Ok
\* and may have written the credential: the value it stored or returned
Writers == {"store_key", "delete_key", "request_key", "read_or_request_key"}

Brief(c) ==
    IF c.res.ok /\ c.op \in Writers
    THEN [op |-> c.op, mgr |-> c.mgr,
          val |-> CASE c.op = "store_key"  -> c.arg
                    [] c.op = "delete_key" -> None
                    [] OTHER               -> Some(c.res.val)]
    ELSE [op |-> "other", mgr |-> "none", val |-> None]

\* the state after construction (KeyManager::new, StructKeyManager::new) of
\* the managers in use, over the builds examined and every environment and
\* prior keyring: KeyManager with and without use_env_credentials, where the
\* variable may be set either way; StructKeyManager<Profile> in the default
\* build and with either feature alone; StructKeyManager<Account> in the
\* default build
InitWith(inUse) ==
    /\ active = inUse
    /\ wrapped \in BOOLEAN
    /\ T \in (IF wrapped THEN RecordTypes ELSE {Profile})
    /\ preserve_order \in (IF wrapped /\ T = Profile THEN BOOLEAN ELSE {FALSE})
    /\ use_env_credentials \in
          (IF wrapped /\ (preserve_order \/ T # Profile) THEN {FALSE} ELSE BOOLEAN)
    /\ environ \in (IF wrapped /\ ~use_env_credentials THEN {None}
                    ELSE {None, Some(value_from_env)})
    /\ keyring \in {{}} \cup
          {{Credential(system_name, key_name, v)} :
              v \in {test_value, to_string(T, SampleOf(T, 1))}}
    /\ key_value = [m \in Managers |-> None]
    /\ last = NoCall
    /\ prev = Brief(NoCall)

Init == InitWith({"m1"})

\* a call of manager m returns: what it leaves behind becomes the state
Returns(op, m, arg, outcome, io) ==
    \E out \in {outcome} :
        /\ keyring' = out.keyring
        /\ key_value' = [key_value EXCEPT ![m] = out.key_value]
        /\ last' = Call(op, m, arg, out, io)
        /\ prev' = Brief(last)
        /\ UNCHANGED <<use_env_credentials, preserve_order, T, environ, wrapped,
                       active>>

ReadKey(m) ==
    /\ ~wrapped
    /\ \E g \in BOOLEAN :
          LET io == Io(g, FALSE, FALSE, <<>>)
          IN  Returns("read_key", m, None, read_key(m, io), io)

StoreKey(m) ==
    /\ ~wrapped
    /\ \E value \in ScalarValues, f \in BOOLEAN :
          LET io == Io(FALSE, f, FALSE, <<>>)
          IN  Returns("store_key", m, Some(value), store_key(m, value, io), io)

DeleteKey(m) ==
    /\ ~wrapped
    /\ \E d \in BOOLEAN :
          LET io == Io(FALSE, FALSE, d, <<>>)
          IN  Returns("delete_key", m, None, delete_key(m, io), io)

RequestKey(m) ==
    /\ ~wrapped
    /\ \E lines \in [1..1 -> Lines(T)] :
          \E f \in Drawn(BOOLEAN,
                         Sets(request_key(m, Io(FALSE, FALSE, FALSE, lines)))) :
              LET io == Io(FALSE, f, FALSE, lines)
              IN  Returns("request_key", m, None, request_key(m, io), io)

ReadOrRequestKey(m) ==
    /\ ~wrapped
    /\ \E g \in BOOLEAN :
          \E asks \in {~read_key(m, Io(g, FALSE, FALSE, <<>>)).res.ok} :
              \E lines \in Drawn([1..1 -> Lines(T)], asks) :
              \E f \in Drawn(BOOLEAN,
                             asks /\ Sets(request_key(m, Io(g, FALSE, FALSE, lines)))) :
                  LET io == Io(g, f, FALSE, lines)
                  IN  Returns("read_or_request_key", m, None,
                              read_or_request_key(m, io), io)

StructReadKey(m) ==
    /\ wrapped
    /\ \E g \in BOOLEAN :
          LET io == Io(g, FALSE, FALSE, <<>>)
          IN  Returns("read_key", m, None, Struct_read_key(m, io), io)

StructStoreKey(m) ==
    /\ wrapped
    /\ \E value \in StructValues, f \in BOOLEAN :
          LET io == Io(FALSE, f, FALSE, <<>>)
          IN  Returns("store_key", m, Some(value),
                      Struct_store_key(m, value, io), io)

StructDeleteKey(m) ==
    /\ wrapped
    /\ \E d \in BOOLEAN :
          LET io == Io(FALSE, FALSE, d, <<>>)
          IN  Returns("delete_key", m, None, Struct_delete_key(m, io), io)

StructRequestKey(m) ==
    /\ wrapped
    /\ \E lines \in [1..Len(T) -> Lines(T)] :
          \E f \in Drawn(BOOLEAN,
                         Sets(Struct_request_key(m, Io(FALSE, FALSE, FALSE, lines)))) :
              LET io == Io(FALSE, f, FALSE, lines)
              IN  Returns("request_key", m, None, Struct_request_key(m, io), io)

StructReadOrRequestKey(m) ==
    /\ wrapped
    /\ \E g \in BOOLEAN :
          \E asks \in {~Struct_read_key(m, Io(g, FALSE, FALSE, <<>>)).res.ok} :
              \E lines \in Drawn([1..Len(T) -> Lines(T)], asks) :
              \E f \in Drawn(BOOLEAN,
                             asks /\ Sets(Struct_request_key(m, Io(g, FALSE, FALSE, lines)))) :
                  LET io == Io(g, f, FALSE, lines)
                  IN  Returns("read_or_request_key", m, None,
                              Struct_read_or_request_key(m, io), io)

\* env::set_var(key_name, value) / env::remove_var(key_name), by the process
SetVar ==
    /\ use_env_credentials
    /\ environ # Some(value_from_env)
    /\ environ' = Some(value_from_env)
    /\ last' = [NoCall EXCEPT !.op = "set_var"]
    /\ prev' = Brief(last)
    /\ UNCHANGED <<use_env_credentials, preserve_order, T, keyring, wrapped,
                   key_value, active>>

RemoveVar ==
    /\ use_env_credentials
    /\ environ # None
    /\ environ' = None
    /\ last' = [NoCall EXCEPT !.op = "remove_var"]
    /\ prev' = Brief(last)
    /\ UNCHANGED <<use_env_credentials, preserve_order, T, keyring, wrapped,
                   key_value, active>>

Next ==
    \/ \E m \in active : ReadKey(m)
    \/ \E m \in active : StoreKey(m)
    \/ \E m \in active : DeleteKey(m)
    \/ \E m \in active : RequestKey(m)
    \/ \E m \in active : ReadOrRequestKey(m)
    \/ \E m \in active : StructReadKey(m)
    \/ \E m \in active : StructStoreKey(m)
    \/ \E m \in active : StructDeleteKey(m)
    \/ \E m \in active : StructRequestKey(m)
    \/ \E m \in active : StructReadOrRequestKey(m)
    \/ SetVar
    \/ RemoveVar

Spec == Init /\ [][Next]_vars

\* Two managers constructed with the same (system_name, key_name), of the
\* same kind, calling in any order: KeyManager with and without
\* use_env_credentials, every method; StructKeyManager<Profile> in the
\* default build, the methods that take no console input.
InitShared ==
    /\ InitWith(Managers)
    /\ wrapped => T = Profile /\ ~preserve_order /\ ~use_env_credentials

NextShared ==
    \/ \E m \in active : ReadKey(m)
    \/ \E m \in active : StoreKey(m)
    \/ \E m \in active : DeleteKey(m)
    \/ \E m \in active : RequestKey(m)
    \/ \E m \in active : ReadOrRequestKey(m)
    \/ \E m \in active : StructReadKey(m)
    \/ \E m \in active : StructStoreKey(m)
    \/ \E m \in active : StructDeleteKey(m)
    \/ SetVar
    \/ RemoveVar

SpecShared == InitShared /\ [][NextShared]_vars

\* ------------------------------------------------------------- properties

\* the credentials the keyring holds for the managers' identity
Entry == EntryOf(keyring, system_name, key_name)

Secret == (CHOOSE c \in Entry : TRUE).secret

\* the override is in force: the feature is compiled in and the variable set
Override == use_env_credentials /\ environ.some

\* the text a store of the value v writes
Text(v) == IF wrapped THEN Serialized(T, v) ELSE v

\* v is s without its leading and trailing whitespace
IsTrimOf(v, s) ==
    \E a \in 0..Len(s), b \in 0..Len(s) :
        /\ a + b <= Len(s)
        /\ v = SubSeq(s, a + 1, Len(s) - b)
        /\ \A k \in 1..a : s[k] \in Whitespace
        /\ \A k \in (Len(s) - b + 1)..Len(s) : s[k] \in Whitespace
        /\ v # <<>> => v[1] \notin Whitespace /\ v[Len(v)] \notin Whitespace

\* the last call is a read_key by the manager whose call op came just before
\* it and returned Ok, and no platform call failed in the read
ReadAfter(op) ==
    prev.op = op /\ last.op = "read_key" /\ prev.mgr = last.mgr /\ last.faults = {}

\* the last call asked for the value at the console
Asked == last.op \in {"request_key", "read_or_request_key"} /\ last.prompts # <<>>

\* the last call is a read_or_request_key that found neither a credential nor
\* an override, and whose console and store calls did not fail
Fallback ==
    /\ last.op = "read_or_request_key"
    /\ ~last.held
    /\ ~Override
    /\ last.faults \cap {"set", "read_line"} = {}

\* C1 (as the code has it): on a KeyManager, a store_key(v) that returned Ok
\* followed at once by read_key returns v whatever the keyring and the cache
\* held before, when the override is not in force; when it is in force the read
\* returns the variable's value instead.
C1_StoreThenRead ==
    (~wrapped /\ ReadAfter("store_key")) =>
        last.res = Ok(IF Override THEN environ.val ELSE prev.val.val)

C1_Witness ==
    /\ ~wrapped
    /\ ReadAfter("store_key")
    /\ ~Override
    /\ last.res = Ok(prev.val.val)

\* C1 as stated: store_key(v) then read_key returns v for every state of the
\* keyring, the override and the cache.
C1_Original ==
    (~wrapped /\ ReadAfter("store_key")) => last.res = Ok(prev.val.val)

\* C2: on a StructKeyManager<T>, the text a store_key(v) leaves in the keyring
\* decodes (from_str) to v, for the sample values and for every value built at
\* the console; and a read_key at once after store_key(v), served by the
\* keyring, returns v.
C2_RoundTrip ==
    wrapped =>
        /\ (last.op = "store_key" /\ last.res.ok) =>
               Entry # {} /\ Parsed(T, Secret) = Ok(last.arg.val)
        /\ (Asked /\ last.res.ok) =>
               Entry # {} /\ Parsed(T, Secret) = Ok(last.res.val)
        /\ (ReadAfter("store_key") /\ ~Override) => last.res = Ok(prev.val.val)

C2_Witness ==
    /\ wrapped
    /\ ReadAfter("store_key")
    /\ prev.val = Some(SampleOf(T, 2))
    /\ last.res = Ok(SampleOf(T, 2))

\* C3: the keyring never holds more than one credential for the identity;
\* after a store_key(v2) that returned Ok it holds exactly the text of v2,
\* whatever it held before; and a read_key at once after it, served by the
\* keyring, returns v2.
C3_Overwrite ==
    /\ Cardinality(Entry) <= 1
    /\ (last.op = "store_key" /\ last.res.ok) =>
           Entry = {Credential(system_name, key_name, Text(last.arg.val))}
    /\ (ReadAfter("store_key") /\ ~Override) => last.res = Ok(prev.val.val)

C3_Witness ==
    /\ prev.op = "store_key"
    /\ last.op = "store_key"
    /\ last.res.ok
    /\ last.held
    /\ prev.val # last.arg
    /\ Entry = {Credential(system_name, key_name, Text(last.arg.val))}

\* C4 (as the code has it): a delete_key that returned Ok leaves no credential
\* and an empty cache; a read_key at once after it fails with NoEntry when the
\* override is not in force, and when it is in force does not: the KeyManager
\* returns the variable's value.
C4_DeleteThenRead ==
    /\ (last.op = "delete_key" /\ last.res.ok) =>
           Entry = {} /\ key_value[last.mgr] = None
    /\ ReadAfter("delete_key") =>
           IF Override
           THEN last.res # NoEntry /\ (~wrapped => last.res = Ok(environ.val))
           ELSE last.res = NoEntry

C4_Witness ==
    /\ ReadAfter("delete_key")
    /\ ~Override
    /\ last.res = NoEntry

\* C4 as stated: after delete_key, read_key yields NoEntry whatever the state
\* of the override.
C4_Original == ReadAfter("delete_key") => last.res = NoEntry

\* C5 (as the code has it): delete_key on an identity without a credential
\* never returns Ok and leaves the keyring empty; it returns the keyring's own
\* error: NoEntry, the error read_key returns for a missing credential, unless
\* the platform call itself failed.
C5_DeleteAbsent ==
    /\ (last.op = "delete_key" /\ ~last.held) =>
           /\ ~last.res.ok
           /\ last.res = IF "delete" \in last.faults
                         THEN PlatformFailure("platform") ELSE NoEntry
           /\ Entry = {}
    /\ (last.op = "read_key" /\ ~last.held /\ ~Override /\ last.faults = {}) =>
           last.res = NoEntry

C5_Witness ==
    /\ last.op = "delete_key"
    /\ ~last.held
    /\ last.res = NoEntry

\* C5 as stated: delete_key on an identity without a credential fails with an
\* error of another kind than the missing-credential error.
C5_Original ==
    (last.op = "delete_key" /\ ~last.held) =>
        ~last.res.ok /\ last.res.err.kind # NoEntry.err.kind

\* C6: when the feature is compiled in and the variable is set, read_key makes
\* no keyring call, leaves the variable's value in key_value and (KeyManager)
\* returns it, whatever the keyring holds.
C6_OverridePrecedence ==
    (last.op = "read_key" /\ Override) =>
        /\ last.queried = <<>>
        /\ key_value[last.mgr] = Some(environ.val)
        /\ ~wrapped => last.res = Ok(environ.val)

C6_Witness ==
    /\ ~wrapped
    /\ last.op = "read_key"
    /\ Override
    /\ last.held
    /\ Secret # environ.val
    /\ last.res = Ok(environ.val)

\* C7: a KeyManager's read_or_request_key that finds neither credential nor
\* override prints the notice, prompts once, and stores, caches and returns the
\* line read without its surrounding whitespace; a read_key at once after a
\* read_or_request_key returns the same value and prompts for nothing.
C7_ScalarFallback ==
    ~wrapped =>
        /\ Fallback =>
               /\ last.notice
               /\ Len(last.prompts) = 1 /\ Len(last.lines) = 1
               /\ last.res.ok
               /\ IsTrimOf(last.res.val, last.lines[1].text)
               /\ Entry = {Credential(system_name, key_name, last.res.val)}
               /\ key_value[last.mgr] = Some(last.res.val)
        /\ (ReadAfter("read_or_request_key") /\ ~Override) =>
               /\ last.res = Ok(prev.val.val)
               /\ last.prompts = <<>>
               /\ ~last.notice

C7_Witness ==
    /\ ~wrapped
    /\ Fallback
    /\ last.lines = <<Line(<<" ", "G", "r", "a", "c", "e", "\n">>)>>
    /\ last.res = Ok(Grace)
    /\ Secret = Grace

\* C8 as stated: in a StructKeyManager's request_key, a line that cannot be
\* converted to the field's type is followed by a prompt for the same field,
\* and a record returned holds, for every field prompted, a converted input.
C8_Original ==
    (wrapped /\ Asked) =>
        /\ \A i \in 1..Len(last.prompts) :
               (~last.prompts[i].accepted /\ last.lines[i] # IoError) =>
                   /\ i < Len(last.prompts)
                   /\ last.prompts[i + 1].field = last.prompts[i].field
        /\ last.res.ok =>
               \A i \in 1..Len(last.prompts) :
                   \E j \in 1..Len(last.prompts) :
                       /\ last.prompts[j].field = last.prompts[i].field
                       /\ last.prompts[j].accepted

\* C8, what the code does: a rejected line moves on to the next field, and the
\* record is stored and returned with the default left in its place.
C8_Witness ==
    /\ wrapped
    /\ Asked
    /\ last.res.ok
    /\ Parsed(T, Secret) = last.res
    /\ \E i \in 1..Len(last.prompts) :
           /\ ~last.prompts[i].accepted
           /\ \A j \in 1..Len(last.prompts) :
                  j # i => last.prompts[j].field # last.prompts[i].field
           /\ LET f == FieldIndex(T, last.prompts[i].field)
              IN  last.res.val[f] = Default(T)[f]

\* the value v of a field of the given Rust type is what the line text
\* converts to
InputFits(kind, v, text) ==
    CASE kind = "String" -> v.t = "String" /\ IsTrimOf(v.s, text)
      [] kind = "i32"    -> /\ v.t = "i32"
                            /\ parse_i64(trim(text)).ok
                            /\ NumOfI32(v.n) = parse_i64(trim(text)).num
      [] kind = "bool"   -> /\ v.t = "bool"
                            /\ to_lowercase(trim(text)) \in {TrueText, FalseText}
                            /\ v.b = (to_lowercase(trim(text)) = TrueText)

\* the lines of the scenario: "Grace", then "30"
ScenarioLines == <<Line(LineSeq(Profile)[1]), Line(LineSeq(Profile)[2])>>

Undecodable ==
    /\ wrapped
    /\ last.op = "read_key"
    /\ "get" \notin last.faults
    /\ Override \/ last.held
    /\ ~Parsed(T, IF Override THEN environ.val ELSE Secret).ok

\* C10 (as the code has it): when the text read does not decode into T,
\* read_key returns PlatformFailure boxing the serde_json error: not NoEntry,
\* but the variant a failed platform call returns, apart from it only in what
\* the box holds.
C10_DecodeFailure ==
    Undecodable =>
        /\ last.res = PlatformFailure("serde_json")
        /\ last.res.err.kind = PlatformFailure("platform").err.kind
        /\ last.res.err.kind # NoEntry.err.kind

C10_Witness ==
    /\ Undecodable
    /\ ~Override
    /\ Secret = test_value
    /\ last.res = PlatformFailure("serde_json")

\* C10 as stated: the error of a failed decode is of a kind apart from both
\* the missing-credential error and the platform failure.
C10_Original ==
    Undecodable =>
        /\ ~last.res.ok
        /\ last.res.err.kind # NoEntry.err.kind
        /\ last.res.err.kind # PlatformFailure("platform").err.kind

\* ------------------------------------------- properties of a single call
\* Read in a step of the machine: unprimed, the state the call began in;
\* last', the call and what it did.

\* KeyManager::read_key has a value to return: the variable's or the
\* credential's
Readable == Override \/ Entry # {}

\* the text it returns
Stored == IF Override THEN environ.val ELSE Secret

\* the value the manager's read_key makes of it
Decoded == IF wrapped THEN Parsed(T, Stored) ELSE Ok(Stored)

\* how the read_key of the call c fails, if it does
ReadFailure(c) ==
    CASE "get" \in c.faults -> "StoreError"
      [] ~Readable          -> "NotFound"
      [] ~Decoded.ok        -> "DecodeError"
      [] OTHER              -> "none"

\* the call c made no set_password call
NoWrite(c) == \A i \in 1..Len(c.queried) : c.queried[i] # "set"

C11_Hit ==
    (last'.op = "read_or_request_key" /\ ReadFailure(last') = "none") =>
        /\ last'.res = Decoded
        /\ last'.prompts = <<>>
        /\ ~last'.notice
        /\ NoWrite(last')
        /\ keyring' = keyring

\* C11: a read_or_request_key (KeyManager and StructKeyManager) whose read_key
\* succeeds returns the value read_key returns, prints neither notice nor
\* prompt, makes no set_password call and leaves the keyring as it was.
C11_ReadHit == [][C11_Hit]_vars

C11_Witness ==
    /\ wrapped
    /\ last.op = "read_or_request_key"
    /\ last.held
    /\ ~Override
    /\ last.faults = {}
    /\ last.prompts = <<>>
    /\ Entry # {}
    /\ last.res = Parsed(T, Secret)
    /\ last.res.ok

C12_Miss ==
    (wrapped /\ last'.op = "read_or_request_key"
             /\ ReadFailure(last') \in {"NotFound", "StoreError", "DecodeError"}) =>
        /\ last'.notice
        /\ last'.prompts # <<>>
        /\ last'.res.ok =>
               Entry' = {Credential(system_name, key_name,
                                    Serialized(T, last'.res.val))}

\* C12: a StructKeyManager's read_or_request_key whose read_key fails, with
\* NoEntry, with a platform failure or because the text does not decode,
\* prints the notice and runs request_key; when that returns a record the
\* keyring holds its serialization, in place of whatever text it held.
C12_AnyFailureAsks == [][C12_Miss]_vars

C12_Witness ==
    /\ wrapped
    /\ last.op = "read_or_request_key"
    /\ last.held
    /\ ~Override
    /\ last.faults = {}
    /\ last.notice
    /\ last.res.ok
    /\ Secret # test_value
    /\ Entry = {Credential(system_name, key_name, Serialized(T, last.res.val))}

\* the manager's key_value when the fallback of the call c begins: as the
\* call found it, unless the read_key of a StructKeyManager's
\* read_or_request_key obtained text that did not decode, which
\* KeyManager::read_key has left there
FallbackCache(c) ==
    IF c.op = "read_or_request_key" /\ ReadFailure(c) = "DecodeError"
    THEN Some(Stored)
    ELSE key_value[c.mgr]

C13_Fatal ==
    (last'.op \in {"request_key", "read_or_request_key"}
        /\ last'.faults \cap {"read_line", "set"} # {}) =>
        /\ last'.res = IF "read_line" \in last'.faults
                       THEN PlatformFailure("io")
                       ELSE PlatformFailure("platform")
        /\ "read_line" \in last'.faults => NoWrite(last')
        /\ keyring' = keyring
        /\ key_value'[last'.mgr] = FallbackCache(last')

\* C13: in request_key, alone or as the fallback of read_or_request_key
\* (KeyManager and StructKeyManager), a read_line that fails at any prompt
\* ends the call with that error before any set_password call, and a
\* set_password that fails ends it with the keyring's error in place of the
\* value; either way the keyring is as it was and key_value is as it was when
\* the fallback began.
C13_FallbackFailure == [][C13_Fatal]_vars

C13_Witness ==
    /\ wrapped
    /\ last.op = "request_key"
    /\ Len(last.prompts) = 2
    /\ last.lines[1] # IoError
    /\ last.prompts[1].accepted
    /\ last.lines[2] = IoError
    /\ last.res = PlatformFailure("io")
    /\ last.held
    /\ Entry # {}

\* the call c converted a line for an i32 field to a number outside the
\* range of i32
OutOfRange(c) ==
    \E i \in 1..Len(c.prompts) :
        /\ c.prompts[i].accepted
        /\ T[FieldIndex(T, c.prompts[i].field)].kind = "i32"
        /\ ~MagLeq(parse_i64(trim(c.lines[i].text)).num.mag,
                   IF parse_i64(trim(c.lines[i].text)).num.neg
                   THEN I32MinMag ELSE I32MaxMag)

C14_Undecoded ==
    (wrapped /\ last'.op \in {"request_key", "read_or_request_key"}
             /\ "read_line" \notin last'.faults
             /\ OutOfRange(last')) =>
        /\ last'.res = PlatformFailure("serde_json")
        /\ NoWrite(last')
        /\ keyring' = keyring
        /\ key_value'[last'.mgr] = FallbackCache(last')

\* C14: a StructKeyManager's request_key whose filled map does not convert
\* to T (a number outside the range of an i32 field) returns the serde_json
\* error boxed in PlatformFailure and makes no set_password call: the keyring
\* is as it was and key_value is as it was when the fallback began.
C14_NoStoreOnDecodeFailure == [][C14_Undecoded]_vars

C14_Witness ==
    /\ wrapped
    /\ T = Profile
    /\ last.op = "request_key"
    /\ last.res = PlatformFailure("serde_json")
    /\ last.held
    /\ Entry # {}
    /\ \E i \in 1..Len(last.prompts) :
           /\ last.prompts[i].accepted
           /\ last.lines[i] = Line(LineSeq(Profile)[3])

\* what a read_key served by the keyring returns for the credential held
Held ==
    IF Entry = {} THEN NoEntry
    ELSE IF Decoded.ok THEN Decoded
    ELSE PlatformFailure("serde_json")

\* C15: with two managers of one identity calling in any order, a read_key
\* served by the keyring returns what the keyring holds at that moment,
\* whichever manager wrote it: the value of the store_key just before it,
\* NoEntry after the delete_key just before it, by this manager or the other,
\* whatever this manager's key_value was.
C15_SharedStore ==
    (last.op = "read_key" /\ ~Override /\ last.faults = {}) =>
        /\ last.res = Held
        /\ prev.op = "store_key" => last.res = Ok(prev.val.val)
        /\ prev.op = "delete_key" => last.res = NoEntry

C15_Witness ==
    /\ active = Managers
    /\ last.op = "read_key"
    /\ last.mgr = "m1"
    /\ prev.op = "delete_key"
    /\ prev.mgr = "m2"
    /\ last.faults = {}
    /\ ~Override
    /\ key_value["m1"] # None
    /\ last.res = NoEntry

\* the keyring call of the call c fails: the platform call itself, or
\* get_password / delete_credential finding no credential
KeyringFailure(c) ==
    \/ c.faults # {}
    \/ c.op = "read_key" /\ ~Readable
    \/ c.op = "delete_key" /\ Entry = {}

C16_Failed ==
    (last'.op \in {"read_key", "store_key", "delete_key"}
        /\ KeyringFailure(last')) =>
        /\ last'.res = IF last'.faults # {} THEN PlatformFailure("platform")
                       ELSE NoEntry
        /\ Len(last'.queried) = 1
        /\ keyring' = keyring
        /\ key_value'[last'.mgr] = key_value[last'.mgr]

\* C16: a read_key, store_key or delete_key whose keyring call fails returns
\* the keyring's error after that one call, and leaves the keyring and the
\* manager's key_value as they were.
C16_Propagation == [][C16_Failed]_vars

C16_Witness ==
    /\ last.op = "store_key"
    /\ last.faults = {"set"}
    /\ last.res = PlatformFailure("platform")
    /\ last.held
    /\ Entry # {}
    /\ Secret # Text(last.arg.val)
    /\ key_value[last.mgr] = Some(Secret)

\* the field names of the Map serde_json::to_value makes of T::default(), in
\* the order it iterates them
EncodedFields ==
    [p \in 1..Len(T) |->
        T[to_value(T, preserve_order, Default(T))[p].field].key]

\* the last call is a StructKeyManager call that ran request_key
Requested ==
    /\ wrapped
    /\ \/ last.op = "request_key"
       \/ last.op = "read_or_request_key" /\ last.notice

\* the first prompt of the last call for the field named name
FirstPrompt(name) ==
    CHOOSE i \in 1..Len(last.prompts) :
        /\ last.prompts[i].field = name
        /\ \A j \in 1..(i - 1) : last.prompts[j].field # name

\* C17: a StructKeyManager's request_key prompts only for fields of the Map
\* made of T::default(); unless read_line fails it prompts for every one of
\* them; and the first prompts of the fields come in the Map's order.
C17_DefaultShape ==
    Requested =>
        /\ \A i \in 1..Len(last.prompts) :
               \E p \in 1..Len(T) : last.prompts[i].field = EncodedFields[p]
        /\ "read_line" \notin last.faults =>
               \A p \in 1..Len(T) :
                   \E i \in 1..Len(last.prompts) :
                       last.prompts[i].field = EncodedFields[p]
        /\ \A p \in 1..Len(T), q \in 1..Len(T) :
               (/\ p < q
                /\ \E i \in 1..Len(last.prompts) :
                       last.prompts[i].field = EncodedFields[q]) =>
                   /\ \E i \in 1..Len(last.prompts) :
                          last.prompts[i].field = EncodedFields[p]
                   /\ FirstPrompt(EncodedFields[p]) < FirstPrompt(EncodedFields[q])

C17_Witness ==
    /\ Requested
    /\ T = Account
    /\ "read_line" \notin last.faults
    /\ Len(last.prompts) = 2
    /\ last.prompts[1].field = Account[2].key
    /\ last.prompts[2].field = Account[1].key
    /\ ~last.prompts[1].accepted

\* the override is in force with text that does not decode into T
OverrideUndecodable == wrapped /\ Override /\ ~Parsed(T, environ.val).ok

\* C18 (as the code has it): a read_key at once after a read_or_request_key
\* that returned v, on the same manager, returns v, for every prior keyring
\* and every state of the override but one: on a StructKeyManager whose
\* override is in force with text that does not decode into T, the
\* read_or_request_key returns the record it asked for and stored, and the
\* read_key after it fails on the variable's text.
C18_ReadAfterFallback ==
    ReadAfter("read_or_request_key") =>
        last.res = IF OverrideUndecodable
                   THEN PlatformFailure("serde_json")
                   ELSE Ok(prev.val.val)

C18_Witness ==
    /\ wrapped
    /\ ReadAfter("read_or_request_key")
    /\ ~Override
    /\ last.held
    /\ last.res = Ok(prev.val.val)
    /\ last.res.val # SampleOf(T, 1)

\* C18 as stated: a read_key at once after a read_or_request_key that
\* returned v returns v, for every state of the override.
C18_Original ==
    ReadAfter("read_or_request_key") => last.res = Ok(prev.val.val)

\* C19: for a manager that is the only writer of its identity, in a build
\* without the override: whenever key_value holds a text the keyring holds
\* exactly that text for the identity; key_value is None after construction
\* and after every delete_key that returned Ok.
C19_CacheCoherence ==
    ~use_env_credentials =>
        /\ \A m \in active :
               key_value[m].some =>
                   Entry = {Credential(system_name, key_name, key_value[m].val)}
        /\ last.op = "new" => \A m \in active : key_value[m] = None
        /\ (last.op = "delete_key" /\ last.res.ok) => key_value[last.mgr] = None

C19_Witness ==
    /\ ~use_env_credentials
    /\ wrapped
    /\ last.op = "read_key"
    /\ last.res = PlatformFailure("serde_json")
    /\ key_value[last.mgr] = Some(test_value)
    /\ Secret = test_value

====
